---- MODULE Spec2Model ----
(***************************************************************************)
(* A model of the Context class of context-js (src/src/context.js, with    *)
(* its TypeScript twin src/src/context.ts): a tree of contexts sharing an  *)
(* id, a cancellation flag propagated through 'cancelled' listeners, a     *)
(* deadline with a timer, and a bag of values kept in heap objects.        *)
(***************************************************************************)
EXTENDS Integers, Sequences, FiniteSets, Bags, TLC

\* ------------------------------------------------------------- bounds
MaxCtx == 3         \* contexts ever constructed
MaxTime == 1        \* the clock runs from 0 to MaxTime
MaxCallerObj == 2   \* object literals the calling code evaluates
MaxMutations == 1   \* property writes by the calling code
MaxHeapCtx == 2      \* contexts constructed in the runs of HeapSpec
MaxHeapObj == 1      \* object literals evaluated in the runs of HeapSpec
MaxBadCtx == 2       \* contexts constructed in the runs of ValidationSpec
MaxTreeCtx == 4      \* contexts constructed in the runs of OrderSpec

\* ------------------------------------------------------------- values
Keys == {"one", "two"}

Absent == [k |-> "absent", v |-> 0]
Prim(n) == [k |-> "prim", v |-> n]
Ref(a) == [k |-> "ref", v |-> a]
Prims == {Prim(1), Prim(2)}

EmptyObject == [key \in Keys |-> Absent]

\* JavaScript values handed to the API by the calling code.
Undefined == [kind |-> "undefined", n |-> 0]
Null == [kind |-> "null", n |-> 0]
Num(n) == [kind |-> "number", n |-> n]
Float == [kind |-> "float", n |-> 1]
Str(n) == [kind |-> "string", n |-> n]
Bool(b) == [kind |-> "boolean", n |-> IF b THEN 1 ELSE 0]
Date(t) == [kind |-> "date", n |-> t]
Obj(a) == [kind |-> "object", n |-> a]
Ctx(i) == [kind |-> "context", n |-> i]

\* ToBoolean of a value: undefined, null, 0, "" and false are falsy.
Truthy(x) ==
    ~ \/ x.kind \in {"undefined", "null"}
      \/ x.kind = "number" /\ x.n = 0
      \/ x.kind = "string" /\ x.n = 0
      \/ x.kind = "boolean" /\ x.n = 0

InstanceOfContext(x) == x.kind = "context"
InstanceOfDate(x) == x.kind = "date"
IsInteger(x) == x.kind = "number"
IsObject(x) == x.kind \in {"object", "context", "date"}
IsString(x) == x.kind = "string"

Max(a, b) == IF a >= b THEN a ELSE b
Min(a, b) == IF a <= b THEN a ELSE b

Range(s) == {s[i] : i \in DOMAIN s}

VARIABLES
    ctx,        \* sequence of the constructed contexts, in construction order
    heap,       \* sequence of the allocated plain objects; an address is an index
    callerObjs, \* addresses of the objects the calling code allocated itself
    timers,     \* bag of the pending timers handed to setTimeout
    now,        \* Date.now()
    nextId,     \* how many ids unique() has produced, plus one
    emitted,    \* per context, whether it has emitted 'cancelled'
    mutations,  \* how many property writes the calling code has made
    last        \* the operation that produced this state; for a cancel(), the
                \* contexts in the order their cancel() ran and whether the
                \* receiver was cancelled before

vars == <<ctx, heap, callerObjs, timers, now, nextId, emitted, mutations, last>>

Contexts == DOMAIN ctx

NoOp == [op |-> "init", recv |-> 0, arg |-> Undefined, res |-> 0, err |-> "none",
         order |-> <<>>, adopted |-> FALSE, scheduled |-> <<>>, was |-> FALSE]

Returned(op, recv, arg, res) ==
    [op |-> op, recv |-> recv, arg |-> arg, res |-> res, err |-> "none",
     order |-> <<>>, adopted |-> FALSE, scheduled |-> <<>>, was |-> FALSE]

Threw(op, recv, arg, msg) ==
    [op |-> op, recv |-> recv, arg |-> arg, res |-> 0, err |-> msg,
     order |-> <<>>, adopted |-> FALSE, scheduled |-> <<>>, was |-> FALSE]

\* ------------------------------------------------------------- set
setThrows(key, value) == key = "id" /\ ~IsString(value)

set(c, key, value) == [c EXCEPT ![key] = value]

\* ------------------------------------------------------------- constructor
unique == Str(nextId)

\* Object.assign(target, source): own properties of source overwrite target's.
ObjectAssign(target, source) ==
    [key \in Keys |-> IF source[key] # Absent THEN source[key] ELSE target[key]]

\* A constructor that puts the child's listener before the earlier ones.
onPrepend(listeners, child) == <<child>> \o listeners

\* A constructor that forgets to subscribe the child to its parent.
onNothing(listeners, child) == listeners

\* The listener list of the parent after parent.on(CANCELLED, child.cancel).
on(listeners, child) == Append(listeners, child)

\* Constructors that do not read the parent's id, flag or deadline.
ConstructIdFresh(hasParent, p) == unique
ConstructCancelledFalse(hasParent, p) == FALSE
ConstructDeadlineNone(hasParent, p) == Null

ConstructId(hasParent, p) == IF hasParent THEN ctx[p].id ELSE unique
ConstructCancelled(hasParent, p) == IF hasParent THEN ctx[p].cancelled ELSE FALSE
ConstructDeadline(hasParent, p) == IF hasParent THEN ctx[p].deadline ELSE Null

\* A constructor that keeps the parent's object instead of copying it.
ConstructValuesAddrShared(hasParent, p) ==
    IF hasParent THEN ctx[p].values ELSE Len(heap) + 1

\* The object the new context's values points at, and what it holds.
ConstructValuesAddr(hasParent, p) == Len(heap) + 1
ConstructValuesObj(hasParent, p) ==
    IF hasParent THEN ObjectAssign(EmptyObject, heap[ctx[p].values]) ELSE EmptyObject

constructorThrows(parent) == Truthy(parent) /\ ~InstanceOfContext(parent)

\* State after `new Context(parent)`: [ctx, heap, nextId]; the new context is
\* the last element of ctx.
Constructed(parent) ==
    LET hasParent == Truthy(parent)
        p == parent.n
        addr == ConstructValuesAddr(hasParent, p)
        h == IF addr = Len(heap) + 1
             THEN Append(heap, ConstructValuesObj(hasParent, p))
             ELSE heap
        self == [id |-> ConstructId(hasParent, p),
                 cancelled |-> ConstructCancelled(hasParent, p),
                 deadline |-> ConstructDeadline(hasParent, p),
                 values |-> addr,
                 listeners |-> <<>>,
                 parent |-> IF hasParent THEN p ELSE 0]
        cs == IF hasParent
              THEN [ctx EXCEPT ![p].listeners = on(@, Len(ctx) + 1)]
              ELSE ctx
    IN [ctx |-> Append(cs, self),
        heap |-> h,
        nextId |-> IF hasParent THEN nextId ELSE nextId + 1]

\* ------------------------------------------------------------- cancel
RECURSIVE cancelRun(_, _)
RECURSIVE emit(_, _)

\* st = [ctx, emitted, order]; order lists the contexts in the order their
\* flag was set.
\* A cancel() that toggles the flag instead of setting it.
cancelFlagToggle(c) == set(c, "cancelled", ~c.cancelled)

\* A cancel() that also drops the deadline of the context.
cancelFlagClearsDeadline(c) == [c EXCEPT !.cancelled = TRUE, !.deadline = Null]

cancelFlag(c) == set(c, "cancelled", TRUE)

\* A cancel() that emits only when the context was not cancelled before.
cancelListenersIfFresh(st, c) == IF ctx[c].cancelled THEN <<>> ELSE st.ctx[c].listeners

cancelListeners(st, c) == st.ctx[c].listeners

cancelRun(st, c) ==
    LET flagged == [st EXCEPT !.ctx[c] = cancelFlag(@),
                              !.order = Append(@, c)]
        emitting == [flagged EXCEPT !.emitted[c] = TRUE]
    IN emit(emitting, cancelListeners(emitting, c))

emit(st, listeners) ==
    IF listeners = <<>> THEN st
    ELSE emit(cancelRun(st, Head(listeners)), Tail(listeners))

Cancelled(c) == cancelRun([ctx |-> ctx, emitted |-> emitted, order |-> <<>>], c)

\* ------------------------------------------------------------- withDeadline
\* An arbitration that lets the later deadline win.
withDeadlineAdoptsLater(inherited, deadline) ==
    ~Truthy(inherited) \/ deadline.n > inherited.n

withDeadlineAdopts(inherited, deadline) ==
    ~Truthy(inherited) \/ deadline.n < inherited.n

\* The deadline of the derived context: the given one when adopted.
withDeadlineArbitrate(inherited, deadline) ==
    IF withDeadlineAdopts(inherited, deadline) THEN deadline ELSE inherited

\* A delay that takes the deadline's epoch time for the time remaining.
withDeadlineTimeoutAbsolute(deadline) == Max(deadline.n, 0)

withDeadlineTimeout(deadline) == Max(deadline.n - now, 0)

\* A withDeadline that installs the deadline on the receiver.
withDeadlineSetTargetReceiver(r, child) == r

\* The context on which r.withDeadline(...) sets the adopted deadline.
withDeadlineSetTarget(r, child) == child

\* A timer bound to the derived context.
withDeadlineTimerTargetChild(r, child) == child

\* The context the timer of r.withDeadline(...) will cancel; child is the
\* derived context.
withDeadlineTimerTarget(r, child) == r

\* The pending timers after setTimeout(target.cancel, timeout).
setTimeout(target, timeout) ==
    timers (+) SetToBag({[target |-> target, due |-> now + timeout]})


\* State after r.withDeadline(deadline): [ctx, heap, timers, adopted, scheduled];
\* scheduled lists the setTimeout calls made.
withDeadlineState(r, deadline) ==
    LET s == Constructed(Ctx(r))
        c == Len(s.ctx)
        adopt == withDeadlineAdopts(s.ctx[c].deadline, deadline)
        cs == [s.ctx EXCEPT ![withDeadlineSetTarget(r, c)] =
                  set(@, "deadline", withDeadlineArbitrate(@.deadline, deadline))]
    IN [ctx |-> cs,
        heap |-> s.heap,
        timers |-> IF adopt
                   THEN setTimeout(withDeadlineTimerTarget(r, c),
                                   withDeadlineTimeout(cs[c].deadline))
                   ELSE timers,
        adopted |-> adopt,
        scheduled |-> IF adopt
                      THEN <<[target |-> withDeadlineTimerTarget(r, c),
                              delay |-> withDeadlineTimeout(cs[c].deadline)]>>
                      ELSE <<>>]

\* The guards of the three derivations.
withDeadlineThrowsNever(deadline) == FALSE

withDeadlineThrows(deadline) == ~InstanceOfDate(deadline)
withTimeoutThrows(ms) == ~IsInteger(ms)
withValuesThrows(values) == ~IsObject(values)

\* A withTimeout that takes ms for an epoch time.
withTimeoutDeadlineFromEpoch(ms) == Date(ms.n)

\* The Date that withTimeout hands to withDeadline.
withTimeoutDeadline(ms) == Date(now + ms.n)

\* ------------------------------------------------------------- withValues
\* A merge in which the inherited value of a key beats the supplied one.
withValuesMergeInheritedWins(inherited, supplied) ==
    ObjectAssign(ObjectAssign(EmptyObject, supplied), inherited)

withValuesMerge(inherited, supplied) ==
    ObjectAssign(ObjectAssign(EmptyObject, inherited), supplied)

\* State after r.withValues(Obj(v)): [ctx, heap]. The object the constructor
\* gave the new context is referenced by nothing once values is reassigned:
\* the heap keeps the live objects only, so the merged object takes its place.
withValuesState(r, v) ==
    LET s == Constructed(Ctx(r))
        c == Len(s.ctx)
        merged == withValuesMerge(s.heap[s.ctx[c].values], s.heap[v])
        h == Append(heap, merged)
    IN [ctx |-> [s.ctx EXCEPT ![c] = set(@, "values", Len(h))],
        heap |-> h]

\* ------------------------------------------------------------- inputs
DateInputs == {Date(t) : t \in 0..MaxTime}
MsInputs == {Num(-1), Num(0), Num(1)}

\* Object literals the calling code writes: flat ones, and ones that nest an
\* object it allocated before.
Literals ==
    {[EmptyObject EXCEPT !["one"] = Prim(1)],
     [EmptyObject EXCEPT !["one"] = Prim(2), !["two"] = Prim(1)]}
    \cup {[EmptyObject EXCEPT !["two"] = Ref(a)] : a \in callerObjs}

\* Objects the calling code holds a reference to: its own, and every
\* context's values (the `values` property is public).
Reachable == callerObjs \cup {ctx[i].values : i \in Contexts}

\* ------------------------------------------------------------- actions
Init ==
    /\ ctx = <<>>
    /\ heap = <<>>
    /\ callerObjs = {}
    /\ timers = EmptyBag
    /\ now = 0
    /\ nextId = 1
    /\ emitted = <<>>
    /\ mutations = 0
    /\ last = NoOp

\* A call that throws msg at a point where it has assigned nothing: the
\* exception is all the calling code gets.
Raise(op, r, arg, msg) ==
    /\ last' = Threw(op, r, arg, msg)
    /\ UNCHANGED <<ctx, heap, callerObjs, timers, now, nextId, emitted, mutations>>

\* new Context() / new Context(parent).
NewContext(parent) ==
    IF constructorThrows(parent)
    THEN Raise("new", 0, parent, "parent must be a Context")
    ELSE /\ LET s == Constructed(parent)
            IN /\ ctx' = s.ctx
               /\ heap' = s.heap
               /\ nextId' = s.nextId
               /\ emitted' = Append(emitted, FALSE)
               /\ last' = Returned("new", IF Truthy(parent) THEN parent.n ELSE 0,
                                   parent, Len(s.ctx))
         /\ UNCHANGED <<callerObjs, timers, now, mutations>>

\* The same, while fewer than MaxCtx contexts exist.
Construct(parent) ==
    /\ constructorThrows(parent) \/ Len(ctx) < MaxCtx
    /\ NewContext(parent)

ApplyWithDeadline(op, r, arg, deadline) ==
    /\ Len(ctx) < MaxCtx
    /\ LET s == withDeadlineState(r, deadline)
       IN /\ ctx' = s.ctx
          /\ heap' = s.heap
          /\ timers' = s.timers
          /\ emitted' = Append(emitted, FALSE)
          /\ last' = [Returned(op, r, arg, Len(s.ctx)) EXCEPT !.adopted = s.adopted,
                                                                !.scheduled = s.scheduled]
    /\ UNCHANGED <<callerObjs, now, nextId, mutations>>

withDeadline(r, deadline) ==
    IF withDeadlineThrows(deadline)
    THEN Raise("withDeadline", r, deadline, "deadline must be a Date")
    ELSE ApplyWithDeadline("withDeadline", r, deadline, deadline)

withTimeout(r, ms) ==
    IF withTimeoutThrows(ms)
    THEN Raise("withTimeout", r, ms, "ms must be an Integer")
    ELSE ApplyWithDeadline("withTimeout", r, ms, withTimeoutDeadline(ms))

withValues(r, values) ==
    IF withValuesThrows(values)
    THEN Raise("withValues", r, values, "values must be an Object")
    ELSE /\ Len(ctx) < MaxCtx
         /\ LET s == withValuesState(r, values.n)
            IN /\ ctx' = s.ctx
               /\ heap' = s.heap
               /\ emitted' = Append(emitted, FALSE)
               /\ last' = Returned("withValues", r, values, Len(s.ctx))
         /\ UNCHANGED <<callerObjs, timers, now, nextId, mutations>>

\* c.set(key, value) called by the calling code.
CallerSet(c, key, value) ==
    IF setThrows(key, value)
    THEN Raise("set", c, value, "id must be a String")
    ELSE /\ ctx' = [ctx EXCEPT ![c] = set(@, key, value)]
         /\ last' = Returned("set", c, value, c)
         /\ UNCHANGED <<heap, callerObjs, timers, now, nextId, emitted, mutations>>

\* A cancel() that clears the timers bound to the context.
cancelTimersCleared(c) ==
    [t \in {u \in BagToSet(timers) : u.target # c} |-> timers[t]]

\* The pending timers after c.cancel(): it calls no clearTimeout.
cancelTimers(c) == timers

\* c.cancel() called by the calling code.
cancel(c) ==
    /\ LET s == Cancelled(c)
       IN /\ ctx' = s.ctx
          /\ emitted' = s.emitted
          /\ last' = [Returned("cancel", c, Undefined, 0)
                         EXCEPT !.order = s.order, !.was = ctx[c].cancelled]
    /\ timers' = cancelTimers(c)
    /\ UNCHANGED <<heap, callerObjs, now, nextId, mutations>>

\* The runtime dispatches the pending timer t: it is due, and no pending
\* timer expires before it.
FireTimer(t) ==
    /\ now >= t.due
    /\ \A u \in BagToSet(timers) : u.due >= t.due
    /\ LET s == Cancelled(t.target)
       IN /\ ctx' = s.ctx
          /\ emitted' = s.emitted
          /\ last' = [Returned("timer", t.target, Date(t.due), 0)
                         EXCEPT !.order = s.order, !.was = ctx[t.target].cancelled]
    /\ timers' = timers (-) SetToBag({t})
    /\ UNCHANGED <<heap, callerObjs, now, nextId, mutations>>

Tick ==
    /\ now < MaxTime
    /\ now' = now + 1
    /\ last' = Returned("tick", 0, Undefined, 0)
    /\ UNCHANGED <<ctx, heap, callerObjs, timers, nextId, emitted, mutations>>

\* The calling code evaluates an object literal.
CallerNewObject(m) ==
    /\ Cardinality(callerObjs) < MaxCallerObj
    /\ heap' = Append(heap, m)
    /\ callerObjs' = callerObjs \cup {Len(heap) + 1}
    /\ last' = Returned("literal", 0, Undefined, Len(heap) + 1)
    /\ UNCHANGED <<ctx, timers, now, nextId, emitted, mutations>>

\* The calling code writes or deletes a top-level property of an object it
\* can reach: obj[key] = cell, or delete obj[key].
CallerMutate(a, key, cell) ==
    /\ mutations < MaxMutations
    /\ heap' = [heap EXCEPT ![a][key] = cell]
    /\ mutations' = mutations + 1
    /\ last' = Returned("mutate", 0, Obj(a), 0)
    /\ UNCHANGED <<ctx, callerObjs, timers, now, nextId, emitted>>

ConstructStep == \E parent \in {Undefined} \cup {Ctx(i) : i \in Contexts} : Construct(parent)
WithDeadlineStep == \E r \in Contexts, d \in DateInputs : withDeadline(r, d)
WithTimeoutStep == \E r \in Contexts, ms \in MsInputs : withTimeout(r, ms)
WithValuesStep == \E r \in Contexts, a \in Reachable : withValues(r, Obj(a))
CancelStep == \E c \in Contexts : cancel(c)
TimerStep == \E t \in BagToSet(timers) : FireTimer(t)
LiteralStep == \E m \in Literals : CallerNewObject(m)
MutateStep == \E a \in Reachable, key \in Keys, cell \in Prims \cup {Absent} : CallerMutate(a, key, cell)

Next ==
    \/ ConstructStep
    \/ WithDeadlineStep
    \/ WithTimeoutStep
    \/ WithValuesStep
    \/ CancelStep
    \/ TimerStep
    \/ Tick

Spec == Init /\ [][Next]_vars

\* Executions in which no caller invokes cancel(): cancellation comes from
\* deadline timers only.
TimerNext ==
    \/ ConstructStep
    \/ WithDeadlineStep
    \/ WithTimeoutStep
    \/ WithValuesStep
    \/ TimerStep
    \/ Tick

TimerSpec == Init /\ [][TimerNext]_vars

\* The same executions under a runtime whose timer facility dispatches every
\* timer that is due.
LiveSpec == Init /\ [][TimerNext]_vars /\ WF_vars(TimerStep)

\* Executions that exercise the value store: the calling code builds
\* objects, derives contexts from them and writes to the objects it reaches.
DeepNext ==
    \/ ConstructStep
    \/ WithValuesStep
    \/ LiteralStep
    \/ MutateStep

DeepSpec == Init /\ [][DeepNext]_vars

\* The same executions, within the smaller bounds MaxHeapCtx and MaxHeapObj.
HeapNext ==
    \/ Len(ctx) < MaxHeapCtx /\ ConstructStep
    \/ Len(ctx) < MaxHeapCtx /\ WithValuesStep
    \/ Cardinality(callerObjs) < MaxHeapObj /\ LiteralStep
    \/ MutateStep

HeapSpec == Init /\ [][HeapNext]_vars

\* Executions that derive chains of contexts from object literals, with no
\* write to an object after it was built.
MergeNext ==
    \/ ConstructStep
    \/ WithValuesStep
    \/ LiteralStep

MergeSpec == Init /\ [][MergeNext]_vars


\* Executions in which the calling code also passes arguments of the wrong
\* type, within the smaller bound MaxBadCtx.
LookAlike == Obj(0)     \* an object with an `on` method that is no Context

Primitives == {Null, Num(0), Num(1), Float, Str(0), Str(1), Bool(FALSE), Bool(TRUE)}

ParentInputs == {Undefined, LookAlike, Date(0)} \cup Primitives \cup {Ctx(i) : i \in Contexts}
DeadlineArgs == {Undefined, LookAlike, Date(0), Date(1)} \cup Primitives
MsArgs == {Undefined, LookAlike, Date(0)} \cup Primitives
ValuesArgs == {Undefined} \cup Primitives \cup {Obj(ctx[i].values) : i \in Contexts}
IdArgs == {Undefined, LookAlike, Date(0)} \cup Primitives

ValidationNext ==
    \/ \E parent \in ParentInputs :
          (Len(ctx) < MaxBadCtx \/ constructorThrows(parent)) /\ Construct(parent)
    \/ \E r \in Contexts, x \in DeadlineArgs :
          (Len(ctx) < MaxBadCtx \/ withDeadlineThrows(x)) /\ withDeadline(r, x)
    \/ \E r \in Contexts, x \in MsArgs :
          (Len(ctx) < MaxBadCtx \/ withTimeoutThrows(x)) /\ withTimeout(r, x)
    \/ \E r \in Contexts, x \in ValuesArgs :
          (Len(ctx) < MaxBadCtx \/ withValuesThrows(x)) /\ withValues(r, x)
    \/ \E c \in Contexts, x \in IdArgs : CallerSet(c, "id", x)

ValidationSpec == Init /\ [][ValidationNext]_vars

\* Executions that only build trees, of up to MaxTreeCtx contexts, and
\* cancel in them.
OrderNext ==
    \/ \E parent \in {Undefined} \cup {Ctx(i) : i \in Contexts} :
          Len(ctx) < MaxTreeCtx /\ NewContext(parent)
    \/ CancelStep

OrderSpec == Init /\ [][OrderNext]_vars

\* ------------------------------------------------------------- the tree
RECURSIVE Ancestors(_)
Ancestors(c) ==
    IF ctx[c].parent = 0 THEN {}
    ELSE {ctx[c].parent} \cup Ancestors(ctx[c].parent)

Derived == {c \in Contexts : ctx[c].parent # 0}
Roots == {c \in Contexts : ctx[c].parent = 0}
Descendants(p) == {d \in Contexts : p \in Ancestors(d)}
Derivations == {"new", "withDeadline", "withTimeout", "withValues"}

\* ------------------------------------------------------------- claims

\* C1: when P.cancel() returns (called by a caller or by a deadline timer),
\* P and every context derived from P before the call, at any depth, are
\* cancelled.
C1_TransitivePropagation ==
    last.op \in {"cancel", "timer"} =>
        /\ ctx[last.recv].cancelled
        /\ \A d \in Descendants(last.recv) : ctx[d].cancelled

\* A cancel() on a context with a child and a grandchild has run through both.
C1_Witness ==
    /\ last.op = "cancel"
    /\ \E d \in Contexts :
          /\ ctx[d].parent # 0
          /\ ctx[ctx[d].parent].parent = last.recv
          /\ last.order = <<last.recv, ctx[d].parent, d>>
          /\ ctx[d].cancelled

\* C2: between operations, a cancelled parent implies a cancelled child; a
\* context derived from a cancelled parent is cancelled when the derivation
\* returns.
C2_ParentImpliesChild ==
    \A c \in Derived : ctx[ctx[c].parent].cancelled => ctx[c].cancelled

\* A derivation from an already cancelled parent has just returned a context
\* that is cancelled without ever having emitted.
C2_Witness ==
    /\ last.op \in Derivations
    /\ last.recv # 0
    /\ ctx[last.recv].cancelled
    /\ ctx[last.res].cancelled
    /\ ~emitted[last.res]

\* C3: no step changes a cancelled flag from true to false.
C3_CancelledMonotonic ==
    [][\A c \in Contexts : ctx[c].cancelled => ctx'[c].cancelled]_vars

\* cancel() has run again on a context that was cancelled before: its parent
\* c, which this call did not touch, is cancelled, and so was the child.
C3_Witness ==
    /\ last.op \in {"cancel", "timer"}
    /\ \E c \in Contexts :
          /\ \E d \in Range(last.order) : d \in Descendants(c) /\ ctx[d].parent = c
          /\ c \notin Range(last.order)
          /\ ctx[c].cancelled
          /\ \A d \in Descendants(c) : ctx[d].cancelled


\* C4: under a runtime that dispatches every due timer, a context whose
\* deadline the clock has reached is eventually cancelled, whether it adopted
\* the deadline or inherited it, with no caller invoking cancel(). Stated for
\* all contexts at once: whenever some context is past its deadline and not
\* cancelled, a state follows in which every context past its deadline is
\* cancelled (a deadline that is reached stays reached, so this holds of each
\* context).
DeadlineReached(c) ==
    /\ c \in Contexts
    /\ Truthy(ctx[c].deadline)
    /\ now >= ctx[c].deadline.n

IsCancelled(c) == c \in Contexts /\ ctx[c].cancelled

C4_DeadlineLiveness ==
    (\E c \in Contexts : DeadlineReached(c) /\ ~IsCancelled(c))
        ~> (\A c \in Contexts : DeadlineReached(c) => IsCancelled(c))

\* A timer has just cancelled a context that inherited its deadline from its
\* parent, once the clock had reached that deadline.
C4_Witness ==
    /\ last.op = "timer"
    /\ \E c \in Derived :
          /\ c \in Range(last.order)
          /\ DeadlineReached(c)
          /\ ctx[c].deadline = ctx[ctx[c].parent].deadline
          /\ ctx[c].cancelled

\* C5: when no caller invokes cancel(), a context with deadline d is not
\* cancelled and has emitted nothing at every clock time before d, and is
\* cancelled once the timers due at d have run.
C5_NoCancelBeforeDeadline ==
    \A c \in Contexts :
        Truthy(ctx[c].deadline) =>
            /\ now < ctx[c].deadline.n => ~ctx[c].cancelled /\ ~emitted[c]
            /\ (now >= ctx[c].deadline.n /\ \A t \in BagToSet(timers) : t.due > now)
                  => ctx[c].cancelled

\* C6: from a context without a deadline, withDeadline(t1) then withDeadline(t2)
\* yields min(t1, t2), which is also what the two calls yield in the other
\* order; a later timestamp that is not earlier keeps the inherited deadline
\* and raises no error.
C6_MinWins ==
    (/\ last.op = "withDeadline"
     /\ ctx[last.recv].parent # 0
     /\ ctx[ctx[last.recv].parent].deadline = Null
     /\ Truthy(ctx[last.recv].deadline))
    => LET t1 == ctx[last.recv].deadline
           t2 == last.arg
           got == ctx[last.res].deadline
       IN /\ last.err = "none"
          /\ got = Date(Min(t1.n, t2.n))
          /\ got = withDeadlineArbitrate(withDeadlineArbitrate(Null, t2), t1)
          /\ t2.n >= t1.n => got = t1 /\ ~last.adopted

\* The second withDeadline of such a chain was given a later timestamp and
\* kept the inherited one.
C6_Witness ==
    /\ last.op = "withDeadline"
    /\ last.err = "none"
    /\ ctx[last.recv].parent # 0
    /\ ctx[ctx[last.recv].parent].deadline = Null
    /\ Truthy(ctx[last.recv].deadline)
    /\ last.arg.n > ctx[last.recv].deadline.n
    /\ ctx[last.res].deadline = ctx[last.recv].deadline

\* C7: a derived context whose parent has a deadline has one too, and it is
\* not later than the parent's.
C7_DeadlineNeverLoosened ==
    \A c \in Derived :
        Truthy(ctx[ctx[c].parent].deadline) =>
            /\ Truthy(ctx[c].deadline)
            /\ ctx[c].deadline.n <= ctx[ctx[c].parent].deadline.n

\* A grandchild holds a deadline strictly earlier than its parent's, which
\* the parent adopted from a root without one.
C7_Witness ==
    \E c \in Derived :
        /\ ctx[ctx[c].parent].parent # 0
        /\ Truthy(ctx[ctx[c].parent].deadline)
        /\ Truthy(ctx[c].deadline)
        /\ ctx[c].deadline.n < ctx[ctx[c].parent].deadline.n

\* C8: every derived context has the id of its parent (hence of its root),
\* two roots have different ids, and no step changes the id of a context.
IdInvariant ==
    /\ \A c \in Derived : ctx[c].id = ctx[ctx[c].parent].id
    /\ \A r1, r2 \in Roots : r1 # r2 => ctx[r1].id # ctx[r2].id
    /\ \A c \in Contexts : IsString(ctx[c].id)

C8_IdentityInvariance ==
    [][IdInvariant' /\ \A c \in Contexts : ctx'[c].id = ctx[c].id]_vars

\* Two roots with different ids exist, and a context derived from one of
\* them shares that root's id after a cancel() ran on it.
C8_Witness ==
    /\ \E r1, r2 \in Roots : ctx[r1].id # ctx[r2].id
    /\ \E c \in Derived : ctx[c].id = ctx[ctx[c].parent].id /\ ctx[c].cancelled


\* C9: a context's values object is no other context's, no object of the
\* calling code and not the mapping given to withValues; a write to or a
\* delete of a top-level key of one object changes no other context's
\* values; withValues(v) leaves the receiver's values and v as they were.
StorageDistinct ==
    /\ \A c1, c2 \in Contexts : c1 # c2 => ctx[c1].values # ctx[c2].values
    /\ \A c \in Contexts : ctx[c].values \notin callerObjs
    /\ last.op = "withValues" => ctx[last.res].values # last.arg.n

MutateFrame ==
    last'.op = "mutate" =>
        \A c \in Contexts :
            ctx[c].values # last'.arg.n
                => /\ ctx'[c].values = ctx[c].values
                   /\ heap'[ctx[c].values] = heap[ctx[c].values]

WithValuesFrame ==
    last'.op = "withValues" =>
        /\ ctx'[last'.recv].values = ctx[last'.recv].values
        /\ heap'[ctx[last'.recv].values] = heap[ctx[last'.recv].values]
        /\ heap'[last'.arg.n] = heap[last'.arg.n]

RECURSIVE NestedObjects(_, _)
NestedObjects(h, a) ==
    LET direct == {h[a][key].v : key \in {k \in Keys : h[a][k].k = "ref"}}
    IN direct \cup UNION {NestedObjects(h, b) : b \in direct}

RECURSIVE DeepEqual(_, _, _, _)
DeepEqual(h1, a1, h2, a2) ==
    \A key \in Keys :
        IF h1[a1][key].k = "ref" /\ h2[a2][key].k = "ref"
        THEN DeepEqual(h1, h1[a1][key].v, h2, h2[a2][key].v)
        ELSE h1[a1][key] = h2[a2][key]

C10_DeepCopy ==
    [][last'.op = "mutate" =>
          \A c \in Derived :
              LET p == ctx[c].parent
                  a == last'.arg.n
              IN /\ a \in NestedObjects(heap, ctx[c].values)
                    => DeepEqual(heap', ctx[p].values, heap, ctx[p].values)
                 /\ a \in NestedObjects(heap, ctx[p].values)
                    => DeepEqual(heap', ctx[c].values, heap, ctx[c].values)]_vars

\* C11: when receiver.withValues(v) returns, the derived context's values
\* hold, for every key, v's value if v has the key and else the receiver's
\* value if the receiver has the key, and no other key; so the value supplied
\* last along a chain is the one that is read.
HasKey(a, key) == heap[a][key] # Absent

C11_OverrideMerge ==
    last.op = "withValues" =>
        LET m == ctx[last.recv].values
            v == last.arg.n
            got == ctx[last.res].values
        IN \A key \in Keys :
              /\ HasKey(got, key) <=> HasKey(m, key) \/ HasKey(v, key)
              /\ HasKey(v, key) => heap[got][key] = heap[v][key]
              /\ HasKey(m, key) /\ ~HasKey(v, key) => heap[got][key] = heap[m][key]

\* The second withValues of a chain was given a literal that overrides one
\* key of the receiver with a different value and lacks another key that
\* the receiver got from the first withValues.
C11_Witness ==
    /\ last.op = "withValues"
    /\ last.arg.n \in callerObjs
    /\ ctx[last.recv].parent # 0
    /\ \E k1, k2 \in Keys :
          /\ HasKey(last.arg.n, k1)
          /\ HasKey(ctx[last.recv].values, k1)
          /\ heap[last.arg.n][k1] # heap[ctx[last.recv].values][k1]
          /\ heap[ctx[last.res].values][k1] = heap[last.arg.n][k1]
          /\ ~HasKey(last.arg.n, k2)
          /\ HasKey(ctx[last.recv].values, k2)
          /\ heap[ctx[last.res].values][k2] = heap[ctx[last.recv].values][k2]

\* C12: a call given an argument of the wrong type (withDeadline a value that
\* is no Date, withTimeout one that is no integer, withValues one that is no
\* object, new Context an object that is no Context, set('id', v) a v that is
\* no string) throws and changes nothing: the contexts with their attributes
\* and listeners, the heap, the pending timers and the id source are the same
\* after the call as before it.
InvalidCall(l) ==
    \/ l.op = "withDeadline" /\ l.arg.kind # "date"
    \/ l.op = "withTimeout" /\ l.arg.kind # "number"
    \/ l.op = "withValues" /\ l.arg.kind \in {"undefined", "null", "number", "float",
                                                "string", "boolean"}
    \/ l.op = "new" /\ l.arg.kind \in {"object", "date"}
    \/ l.op = "set" /\ l.arg.kind # "string"

C12_ValidationAtomic ==
    [][InvalidCall(last') =>
          /\ last'.err # "none"
          /\ last'.res = 0
          /\ UNCHANGED <<ctx, heap, callerObjs, timers, now, nextId, emitted,
                         mutations>>]_vars

\* withDeadline has thrown on a receiver that already had a child listening
\* and a timer pending, and both are as they were.
C12_Witness ==
    /\ last.op = "withDeadline"
    /\ last.err = "deadline must be a Date"
    /\ Len(ctx[last.recv].listeners) = 1
    /\ BagCardinality(timers) = 1
    /\ Len(ctx) = 2

\* C13: new Context(parent) with a parent that was supplied and is not a
\* Context (a look-alike object, null, 0, the empty string, false, or any
\* other value) throws 'parent must be a Context' and returns no context.
C13_RejectsNonContext ==
    (last.op = "new" /\ last.arg.kind \notin {"undefined", "context"})
        => last.err = "parent must be a Context" /\ last.res = 0

\* C14: a withDeadline call that returns hands back a context that did not
\* exist before, hence not the receiver, and the receiver's id, cancelled,
\* deadline and values (the object and what it holds) are the same when the
\* call returns as before it.
C14_ReceiverUnchanged ==
    [][(last'.op = "withDeadline" /\ last'.err = "none") =>
          LET r == last'.recv
          IN /\ last'.res # r
             /\ last'.res \notin Contexts
             /\ last'.res \in DOMAIN ctx'
             /\ ctx'[r].id = ctx[r].id
             /\ ctx'[r].cancelled = ctx[r].cancelled
             /\ ctx'[r].deadline = ctx[r].deadline
             /\ ctx'[r].values = ctx[r].values
             /\ heap'[ctx[r].values] = heap[ctx[r].values]]_vars

\* withDeadline has returned a context that adopted a deadline earlier than
\* the one its receiver holds, and the receiver still holds its own.
C14_Witness ==
    /\ last.op = "withDeadline"
    /\ last.adopted
    /\ Truthy(ctx[last.recv].deadline)
    /\ ctx[last.res].deadline = last.arg
    /\ ctx[last.res].deadline.n < ctx[last.recv].deadline.n

\* C15: R.withTimeout(ms) at clock time now, for integer ms of any sign, ends
\* in the state in which R.withDeadline(new Date(now + ms)) at the same clock
\* time ends: the same derived context with the same deadline, the same
\* decision to adopt or keep, the same setTimeout call (target and delay) and
\* the same pending timers.
C15_TimeoutIsDeadline ==
    [][(last'.op = "withTimeout" /\ last'.err = "none") =>
          LET e == withDeadlineState(last'.recv, Date(now + last'.arg.n))
          IN /\ last'.res = Len(e.ctx)
             /\ ctx'[last'.res].deadline = e.ctx[Len(e.ctx)].deadline
             /\ last'.adopted = e.adopted
             /\ last'.scheduled = e.scheduled
             /\ ctx' = e.ctx
             /\ timers' = e.timers]_vars

\* withTimeout(-1) at clock time 1 has returned a context whose deadline is
\* time 0, with a timer for the receiver at delay 0.
C15_Witness ==
    /\ last.op = "withTimeout"
    /\ last.arg = Num(-1)
    /\ now = 1
    /\ last.adopted
    /\ ctx[last.res].deadline = Date(0)
    /\ last.scheduled = <<[target |-> last.recv, delay |-> 0]>>

\* C16: R.withDeadline(d) makes one setTimeout call if d is adopted (R has no
\* deadline for the derived context to inherit, or d is strictly earlier
\* than it) and none otherwise; the timer is bound to R, not to the derived
\* context, and is due max(d - now, 0) after the call. A timer runs cancel()
\* on its target no earlier than it is due, and runs once.
C16_TimerRule ==
    [][/\ (last'.op = "withDeadline" /\ last'.err = "none") =>
             LET r == last'.recv
                 d == last'.arg
                 adopts == ctx[r].deadline = Null \/ d.n < ctx[r].deadline.n
                 delay == Max(d.n - now, 0)
             IN /\ last'.adopted <=> adopts
                /\ adopts =>
                      /\ last'.scheduled = <<[target |-> r, delay |-> delay]>>
                      /\ last'.scheduled[1].target # last'.res
                      /\ timers' = timers (+) SetToBag({[target |-> r,
                                                          due |-> now + delay]})
                /\ ~adopts => last'.scheduled = <<>> /\ timers' = timers
       /\ last'.op = "timer" =>
             LET t == [target |-> last'.recv, due |-> last'.arg.n]
             IN /\ BagIn(t, timers)
                /\ now >= t.due
                /\ timers' = timers (-) SetToBag({t})
                /\ last'.order[1] = t.target
                /\ ctx'[t.target].cancelled]_vars

\* A timer due at clock time 1 has fired at clock time 1 on a root without a
\* deadline, the receiver of the derivation that adopted deadline 1; the
\* derived context holding that deadline was cancelled as the root's child.
C16_Witness ==
    /\ last.op = "timer"
    /\ last.arg = Date(1)
    /\ now = 1
    /\ ctx[last.recv].parent = 0
    /\ ctx[last.recv].deadline = Null
    /\ \E c \in Derived :
          /\ ctx[c].parent = last.recv
          /\ ctx[c].deadline = Date(1)
          /\ last.order = <<last.recv, c>>

\* C17: a cancel() on C, called by the calling code or by a timer bound to C,
\* changes the cancelled flag of C and of descendants of C only: ancestors,
\* siblings and contexts of other trees keep theirs. It changes the id, the
\* deadline and the values of no context, and constructs none.
C17_CancelFrame ==
    [][last'.op \in {"cancel", "timer"} =>
          /\ DOMAIN ctx' = DOMAIN ctx
          /\ heap' = heap
          /\ \A x \in Contexts :
                /\ x \notin {last'.recv} \cup Descendants(last'.recv)
                      => ctx'[x].cancelled = ctx[x].cancelled
                /\ ctx'[x].id = ctx[x].id
                /\ ctx'[x].deadline = ctx[x].deadline
                /\ ctx'[x].values = ctx[x].values]_vars

\* cancel() has run on a context that has a deadline, a parent and a
\* sibling: the context is cancelled, the parent and the sibling are not.
C17_Witness ==
    /\ last.op = "cancel"
    /\ ctx[last.recv].cancelled
    /\ Truthy(ctx[last.recv].deadline)
    /\ ctx[last.recv].parent # 0
    /\ ~ctx[ctx[last.recv].parent].cancelled
    /\ \E x \in Contexts :
          /\ x # last.recv
          /\ ctx[x].parent = ctx[last.recv].parent
          /\ ~ctx[x].cancelled

\* C18: every run of cancel() on a context, whether the context was cancelled
\* before or not, emits, and invokes each listener registered on the context
\* (the bound cancel() of each of its children) once: during one cancel() on
\* C the cancel() of every child of C, and of every child of a context
\* reached, runs exactly once. Hence n calls invoke a listener n times. A
\* call on a context that was cancelled before leaves every flag as it was.
Occurrences(seq, x) == Cardinality({i \in DOMAIN seq : seq[i] = x})

C18_EveryCallNotifies ==
    [][last'.op \in {"cancel", "timer"} =>
          /\ last'.order[1] = last'.recv
          /\ \A x \in Range(last'.order) :
                /\ emitted'[x]
                /\ \A i \in DOMAIN ctx[x].listeners :
                      Occurrences(last'.order, ctx[x].listeners[i]) = 1
          /\ ctx[last'.recv].cancelled =>
                \A x \in Contexts : ctx'[x].cancelled = ctx[x].cancelled]_vars

\* cancel() has run on a root that a cancel() had cancelled before, and the
\* cancel() of its child has run again.
C18_Witness ==
    /\ last.op \in {"cancel", "timer"}
    /\ last.was
    /\ Len(last.order) >= 2
    /\ ctx[last.order[2]].parent = last.recv
    /\ ctx[last.recv].parent = 0

\* C19: the contexts whose cancel() runs during P.cancel() are P first, then
\* the subtree of each child of P in the order in which the children were
\* derived, each subtree in the same way (depth-first, an earlier child's
\* whole subtree before the next child); all of them are cancelled when the
\* call returns, and the call is one step: nothing else happens within it.
ChildrenInOrder(c) ==
    SelectSeq([i \in 1..Len(ctx) |-> i], LAMBDA d : ctx[d].parent = c)

RECURSIVE Preorder(_)
RECURSIVE PreorderAll(_)
Preorder(c) == <<c>> \o PreorderAll(ChildrenInOrder(c))
PreorderAll(cs) ==
    IF cs = <<>> THEN <<>> ELSE Preorder(Head(cs)) \o PreorderAll(Tail(cs))

C19_PropagationOrder ==
    [][last'.op \in {"cancel", "timer"} =>
          /\ last'.order = Preorder(last'.recv)
          /\ \A x \in Range(last'.order) : ctx'[x].cancelled
          /\ UNCHANGED <<heap, callerObjs, now, nextId, mutations>>
          /\ BagToSet(timers') \subseteq BagToSet(timers)
          /\ DOMAIN ctx' = DOMAIN ctx]_vars

\* cancel() has run on a context with two children, the earlier of which has
\* a child that was derived after the later one: the walk went through the
\* earlier child and its child before the later child.
C19_Witness ==
    /\ last.op = "cancel"
    /\ Len(last.order) = 4
    /\ ctx[last.order[2]].parent = last.recv
    /\ ctx[last.order[3]].parent = last.order[2]
    /\ ctx[last.order[4]].parent = last.recv
    /\ last.order[2] < last.order[4]
    /\ last.order[4] < last.order[3]

\* C20: no step but its own firing removes a pending timer, so a timer whose
\* target was cancelled by a cancel() call or through an ancestor stays
\* pending until it fires; it fires no earlier than it is due, once; and a
\* firing on a target that is already cancelled changes the cancelled flag,
\* the deadline, the values and the id of no context.
C20_TimersNeverCleared ==
    [][/\ last'.op # "timer" =>
             \A t \in BagToSet(timers) :
                 BagIn(t, timers') /\ CopiesIn(t, timers') >= CopiesIn(t, timers)
       /\ last'.op = "timer" =>
             /\ now >= last'.arg.n
             /\ BagCardinality(timers') = BagCardinality(timers) - 1
             /\ ctx[last'.recv].cancelled =>
                   /\ heap' = heap
                   /\ \A x \in Contexts :
                         /\ ctx'[x].cancelled = ctx[x].cancelled
                         /\ ctx'[x].deadline = ctx[x].deadline
                         /\ ctx'[x].values = ctx[x].values
                         /\ ctx'[x].id = ctx[x].id]_vars

\* A timer has fired at clock time 1, when it was due, on a root that was
\* cancelled before and that has a child.
C20_Witness ==
    /\ last.op = "timer"
    /\ last.was
    /\ last.arg = Date(1)
    /\ now = 1
    /\ ctx[last.recv].parent = 0
    /\ Len(last.order) >= 2

====
